---- MODULE Spec2Model ----
(***************************************************************************)
(* Model of zoom.database (Database, Sqlite3Database, MySQLDatabase,       *)
(* database()) : a query executor over a lazily created DB-API connection. *)
(*                                                                         *)
(* A statement is a sequence of tokens: plain text tokens (the first one   *)
(* is the SQL verb) and the canonical placeholders "%s", "%(a)s", "%(b)s". *)
(* A Python argument value is a record [t, items, keys]:                   *)
(*   scalar n        [t |-> "scalar", items |-> <<n>>, keys |-> <<>>]      *)
(*   sequence s      [t |-> "seq",    items |-> s,     keys |-> <<>>]      *)
(*   mapping k -> v  [t |-> "map",    items |-> vals,  keys |-> keys]      *)
(* An optional integer (None or n) is <<>> or <<n>>.                       *)
(*                                                                         *)
(* Spec  : the executor; TSpec : translate() alone.                        *)
(* GSpec : zoom.users get_groups and the User views over fixed tables;     *)
(* CSpec : the same calls while rows of the tables come and go.            *)
(* DSpec : Result (iteration, first, repr, str) and get_tables().          *)
(* ASpec : User.can and User.authorize over things with allows();         *)
(* NSpec : Decimal values written to and read from an sqlite3 column.     *)
(***************************************************************************)
EXTENDS Integers, Sequences, FiniteSets, TLC

VARIABLES
    db,             \* class of the executor object, "none" before construction
    connection,     \* Database.__connection : "None" or "conn"
    debug,          \* Database.debug
    log,            \* Database.log : sequence of trace lines
    rowcount,       \* Database.rowcount (optional integer)
    lastrowid,      \* Database.lastrowid (optional integer)
    factory_calls,  \* environment: how often the connection factory was invoked
    own_calls,      \* how often it was invoked by the executor db
    last_insert,    \* environment: id generated by the most recent insert that
                    \* has not been followed by another statement without rows
    call,           \* the last operation: its inputs and what it did
    ncalls,         \* number of operations performed so far
    debug_calls,    \* number of execute()/execute_many() calls made with debug on
    body,           \* the caller's statement text after the verb
    argv,           \* the caller's arguments (execute) / parameter sets (execute_many)
    tables,         \* rows of the members, subgroups and groups tables, as
                    \* the queries of get_groups return them
    ucall,          \* the last call to the users layer and what it returned
    earlier,        \* the last call before the tables were last changed
    catalog,        \* the names of the tables in the database, in catalog order
    rcursor,        \* the cursor behind the most recent Result
    rcall,          \* the last use of a Result or of get_tables()
    dcall           \* the last decimal value written or read, and its column

\* the users layer, and results
uvars == <<tables, ucall, earlier, catalog, rcursor, rcall, dcall>>

vars == <<db, connection, debug, log, rowcount, lastrowid, factory_calls, own_calls,
          last_insert, call, ncalls, debug_calls, body, argv, uvars>>

\* before any use of the users layer or of a Result
NoTables == [members |-> <<>>, subgroups |-> <<>>, groups |-> <<>>]
NoThing  == [kind |-> "none", owner |-> "", truth |-> FALSE]
NoUCall  == [op |-> "none", user |-> 0, store |-> FALSE, arg |-> <<>>,
             returned |-> <<>>, truth |-> FALSE, my_groups |-> <<>>,
             memberships |-> <<>>, groups |-> <<>>, deepest |-> 0,
             username |-> "", action |-> "", thing |-> NoThing,
             raised |-> "none"]
NoResult == [live |-> FALSE, all |-> <<>>, rows |-> <<>>, array_size |-> 0,
             exhausted |-> FALSE]
NoRCall  == [op |-> "none", rows |-> <<>>, names |-> <<>>, isnone |-> FALSE,
             after_all |-> FALSE]
NoDecimal == [digits |-> <<0>>, exp |-> 0]
NoDCall  == [op |-> "none", written |-> NoDecimal, cell |-> <<>>,
             read |-> NoDecimal]
UInit ==
    /\ tables = NoTables
    /\ ucall = NoUCall
    /\ earlier = NoUCall
    /\ catalog = <<>>
    /\ rcursor = NoResult
    /\ rcall = NoRCall
    /\ dcall = NoDCall

----------------------------------------------------------------------------
(* Bounds *)

MaxCalls == 3       \* operations per behaviour
MaxTLen  == 3       \* tokens of a statement, translate() runs
MaxTArgs == 2       \* arguments per call, translate() runs
MaxSeq   == 2       \* elements of a sequence argument
MaxId    == 2       \* generated row identifiers

----------------------------------------------------------------------------
(* Python values *)

None == <<>>
Some(n) == <<n>>

Scalar(n) == [t |-> "scalar", items |-> <<n>>, keys |-> <<>>]
SeqV(s)   == [t |-> "seq", items |-> s, keys |-> <<>>]
MapV(ks)  == [t |-> "map", items |-> [i \in 1..Len(ks) |-> i], keys |-> ks]
KeyV(k)   == [t |-> "key", items |-> <<>>, keys |-> <<k>>]

SeqsUpTo(S, n) == UNION {[1..k -> S] : k \in 0..n}

Scalars  == {Scalar(n) : n \in 1..2}
SeqVals  == {SeqV(s) : s \in SeqsUpTo({1}, MaxSeq)}
KeySeqs  == {<<>>, <<"a">>, <<"b">>, <<"a", "b">>}
MapVals  == {MapV(ks) : ks \in KeySeqs}
Values   == Scalars \cup SeqVals \cup MapVals

Named    == {"%(a)s", "%(b)s"}
Key(tok) == IF tok = "%(a)s" THEN "a" ELSE "b"
\* ':%s' % key
NamedMarker(k) == IF k = "a" THEN ":a" ELSE ":b"
Range(s) == {s[i] : i \in 1..Len(s)}

\* hasattr(obj, 'items')
hasitems(obj) == obj.t = "map"
\* bool(obj) for a container
truthy(obj) == Len(obj.items) > 0

----------------------------------------------------------------------------
(* Python's  command % values  *)

Raise(kind) == [raised |-> kind, text |-> <<>>]
Ok(text)    == [raised |-> "none", text |-> text]
Cons(tok, r) == IF r.raised = "none" THEN Ok(<<tok>> \o r.text) ELSE r

\* command % tuple(['?'] * n)
RECURSIVE FormatTuple(_, _)
FormatTuple(command, n) ==
    IF command = <<>>
    THEN IF n > 0 THEN Raise("TypeError") ELSE Ok(<<>>)
    ELSE LET tok == Head(command) IN
         IF tok = "%s"
         THEN IF n = 0 THEN Raise("TypeError")
              ELSE Cons("?", FormatTuple(Tail(command), n - 1))
         ELSE IF tok \in Named THEN Raise("TypeError")
         ELSE Cons(tok, FormatTuple(Tail(command), n))

\* command % {key: ':key'} ; first is TRUE until a conversion has been done
RECURSIVE FormatDict(_, _, _)
FormatDict(command, keys, first) ==
    IF command = <<>> THEN Ok(<<>>)
    ELSE LET tok == Head(command) IN
         IF tok = "%s"
         THEN IF first THEN Cons("{dict}", FormatDict(Tail(command), keys, FALSE))
              ELSE Raise("TypeError")
         ELSE IF tok \in Named
         THEN IF Key(tok) \in keys
              THEN Cons(NamedMarker(Key(tok)), FormatDict(Tail(command), keys, FALSE))
              ELSE Raise("KeyError")
         ELSE Cons(tok, FormatDict(Tail(command), keys, first))

----------------------------------------------------------------------------
(* Database.translate *)

\* issequenceform(obj): a sequence type that is not a string
issequenceform(obj) == obj.t = "seq"

\* what translate returns: the statement and the parameters for the driver;
\* form "mapping": params is <<m>> and the mapping m itself is handed over,
\* form "tuple": the tuple params is handed over
Translated(fmt, form, params) ==
    [raised |-> fmt.raised, command |-> fmt.text,
     form |-> IF fmt.raised = "none" THEN form ELSE "none",
     params |-> IF fmt.raised = "none" THEN params ELSE <<>>]

translate_qmark(command, args) ==
    IF Len(args) = 1 /\ hasitems(args[1]) /\ truthy(args[1])
    THEN Translated(FormatDict(command, Range(args[1].keys), TRUE),
                    "mapping", <<args[1]>>)
    ELSE IF Len(args) >= 1 /\ issequenceform(args[1])
    THEN Translated(FormatTuple(command, Len(args[1].items)), "tuple", args)
    ELSE Translated(FormatTuple(command, Len(args)), "tuple", args)

translate_pyformat(command, args) ==
    IF Len(args) = 1 /\ hasitems(args[1]) /\ truthy(args[1])
    THEN Translated(Ok(command), "mapping", <<args[1]>>)
    ELSE Translated(Ok(command), "tuple", args)

translate(paramstyle, command, args) ==
    IF paramstyle = "qmark" THEN translate_qmark(command, args)
    ELSE translate_pyformat(command, args)

\* class attribute paramstyle
paramstyle(class) == IF class = "Sqlite3Database" THEN "qmark" ELSE "pyformat"

----------------------------------------------------------------------------
(* The DB-API driver (sqlite3 / pymysql), the environment of the executor *)

Messages  == {"syntax error", "server has gone away"}
RowCounts == {-1, 1}
Ids       == 1..MaxId
Verbs     == {"select", "insert", "create"}

NoCursor == [description |-> FALSE, rowcount |-> None, lastrowid |-> None]

\* the cursors a successful cursor.execute(command, params) can leave behind
ExecuteCursors(command) ==
    LET verb == IF command = <<>> THEN "" ELSE Head(command) IN
    IF verb = "select"
    THEN {[description |-> TRUE, rowcount |-> Some(rc), lastrowid |-> lr] :
            rc \in RowCounts, lr \in {None, Some(0)}}
    ELSE IF verb = "insert"
    THEN {[description |-> FALSE, rowcount |-> Some(1), lastrowid |-> Some(id)] :
            id \in Ids}
    ELSE \* update, DDL: lastrowid is None, 0 or a stale identifier
         {[description |-> FALSE, rowcount |-> Some(rc), lastrowid |-> lr] :
            rc \in RowCounts, lr \in {None, Some(0)} \cup {Some(id) : id \in Ids}}

\* the cursors a successful cursor.executemany(command, seq) can leave behind
ExecuteManyCursors ==
    {[description |-> FALSE, rowcount |-> Some(rc), lastrowid |-> lr] :
        rc \in RowCounts, lr \in {None} \cup {Some(id) : id \in Ids}}

\* what the driver does with one call of method(command, params)
DriverOutcomes(method, command) ==
    {[ok |-> FALSE, message |-> m, cursor |-> NoCursor] : m \in Messages}
    \cup {[ok |-> TRUE, message |-> "", cursor |-> c] :
            c \in IF method = "execute" THEN ExecuteCursors(command)
                  ELSE ExecuteManyCursors}

\* the parameter sets the driver binds, one statement execution each:
\* execute binds the params object once, executemany iterates over it
\* (iterating over a mapping yields its keys)
DriverParamSets(sent) ==
    IF ~sent.called THEN <<>>
    ELSE IF sent.method = "execute"
    THEN <<[form |-> sent.form, params |-> sent.params]>>
    ELSE IF sent.form = "tuple"
    THEN [i \in 1..Len(sent.params) |->
            [form |-> IF sent.params[i].t = "map" THEN "mapping" ELSE "tuple",
             params |-> <<sent.params[i]>>]]
    ELSE LET m == sent.params[1] IN
         [i \in 1..Len(m.keys) |-> [form |-> "tuple", params |-> <<KeyV(m.keys[i])>>]]

----------------------------------------------------------------------------
(* Database.__getattr__ : the connection is made on first attribute access *)

\* a variant that calls the factory at every attribute access
getattr_anew(conn, factory_ok) ==
    IF factory_ok
    THEN [connection |-> "conn", connects |-> 1, raised |-> "none"]
    ELSE [connection |-> conn, connects |-> 1, raised |-> "DriverError"]

\* returns the new __connection, how often the factory ran, what was raised
getattr_(conn, factory_ok) ==
    IF conn = "None"
    THEN IF factory_ok
         THEN [connection |-> "conn", connects |-> 1, raised |-> "none"]
         ELSE [connection |-> "None", connects |-> 1, raised |-> "DriverError"]
    ELSE [connection |-> conn, connects |-> 0, raised |-> "none"]

----------------------------------------------------------------------------
(* Database._execute *)

NoSent == [called |-> FALSE, method |-> "none", command |-> <<>>,
           form |-> "none", params |-> <<>>]
NoExc  == [statement |-> <<>>, parameters |-> <<>>, message |-> ""]
NoOut  == [raised |-> "none", command |-> <<>>, form |-> "none", params |-> <<>>]

NoCall == [op |-> "none", engine |-> "", command |-> <<>>, args |-> <<>>,
           style |-> "none", debug |-> FALSE,
           raised |-> "none", exc |-> NoExc, returned |-> "None",
           value |-> None, out |-> NoOut, sent |-> NoSent,
           cursor |-> NoCursor, connects |-> 0]

\* ERROR_TPL.format(command, args, error)
ERROR_TPL(command, args, error) ==
    [statement |-> command, parameters |-> args, message |-> error]

\* '  SQL ({:5.1f} ms): {!r} - {!r}'.format(elapsed, command, args); the
\* elapsed wall-clock time is left out of the line
LogLine(command, args) == [command |-> command, args |-> args]

\* lines 197-201: what a successful call returns
returned_(cursor) == IF cursor.description THEN "Result" ELSE "lastrowid"

\* a variant that records the cursor's lastrowid after every statement
lastrowid_unconditional(self_lastrowid, cursor) == cursor.lastrowid

\* lines 197-201: self.lastrowid after a successful call
lastrowid_(self_lastrowid, cursor) ==
    IF cursor.description THEN self_lastrowid ELSE cursor.lastrowid

\* self is [paramstyle, debug, log, rowcount, lastrowid]; drv is what the
\* driver does when method(command, params) is called. Returns the new self
\* and the facts of the call.
execute_(self, method, command, args, drv) ==
    LET tr == translate(self.paramstyle, command, args) IN
    IF tr.raised # "none"
    THEN \* translate() runs before the try statement
         [self |-> self,
          raised |-> tr.raised, exc |-> NoExc, out |-> tr, sent |-> NoSent,
          cursor |-> NoCursor, returned |-> "None", value |-> None]
    ELSE
    LET sent == [called |-> TRUE, method |-> method, command |-> tr.command,
                 form |-> tr.form, params |-> tr.params]
        \* finally: the name command holds the translated statement by now
        logged == IF self.debug
                  THEN Append(self.log, LogLine(tr.command, args))
                  ELSE self.log
    IN
    IF ~drv.ok
    THEN [self |-> [self EXCEPT !.log = logged],
          raised |-> "DatabaseException",
          exc |-> ERROR_TPL(tr.command, args, drv.message),
          out |-> tr, sent |-> sent,
          cursor |-> NoCursor, returned |-> "None", value |-> None]
    ELSE [self |-> [self EXCEPT !.log = logged,
                                !.rowcount = drv.cursor.rowcount,
                                !.lastrowid = lastrowid_(self.lastrowid, drv.cursor)],
          raised |-> "none", exc |-> NoExc, out |-> tr, sent |-> sent,
          cursor |-> drv.cursor,
          returned |-> returned_(drv.cursor),
          value |-> IF drv.cursor.description THEN None ELSE drv.cursor.lastrowid]

----------------------------------------------------------------------------
(* database() and the constructors *)

EngineNames == {"sqlite3", "mysql", "sqlite", "postgres"}
Classes     == {"Sqlite3Database", "MySQLDatabase"}

\* a variant that spells the sqlite engine name "sqlite"
database_sqlite(engine) ==
    IF engine = "sqlite" THEN "Sqlite3Database"
    ELSE IF engine = "mysql" THEN "MySQLDatabase"
    ELSE "raise"

\* the class database(engine) instantiates, "raise" for
\* raise UnkownDatabaseException
database_(engine) ==
    IF engine = "sqlite3" THEN "Sqlite3Database"
    ELSE IF engine = "mysql" THEN "MySQLDatabase"
    ELSE "raise"

\* a variant that leaves autocommit alone
autocommits_never(engine) == FALSE

\* database() calls db.autocommit(1) on the new executor
autocommits(engine) == engine = "mysql"

\* Database.__init__
InitFields ==
    /\ connection' = "None"
    /\ debug' = FALSE
    /\ log' = <<>>
    /\ rowcount' = None
    /\ lastrowid' = None

Step == /\ ncalls < MaxCalls
        /\ ncalls' = ncalls + 1
        /\ UNCHANGED <<body, argv>>
        /\ UNCHANGED uvars

\* Sqlite3Database(...), MySQLDatabase(...), Database(factory, ...)
Construct(class) ==
    /\ db = "none"
    /\ Step
    /\ db' = class
    /\ InitFields
    /\ call' = [NoCall EXCEPT !.op = "construct", !.engine = class,
                              !.returned = "executor"]
    /\ own_calls' = 0
    /\ UNCHANGED <<factory_calls, own_calls, last_insert, debug_calls>>

\* database(engine, ...)
OpenDatabase(engine) ==
    /\ db = "none"
    /\ Step
    /\ LET class == database_(engine)
           c == [NoCall EXCEPT !.op = "database", !.engine = engine]
       IN
       IF class = "raise"
       THEN /\ call' = [c EXCEPT !.raised = "UnkownDatabaseException"]
            /\ UNCHANGED <<db, connection, debug, log, rowcount, lastrowid,
                           factory_calls, own_calls, own_calls>>
       ELSE IF autocommits(engine)
       THEN \E factory_ok, call_ok \in BOOLEAN :
              LET g == getattr_("None", factory_ok) IN
              /\ factory_calls' = factory_calls + g.connects
              /\ IF g.raised = "none" /\ call_ok
                 THEN /\ db' = class
                      /\ InitFields
                      /\ connection' = g.connection
                      /\ own_calls' = g.connects
                      /\ call' = [c EXCEPT !.returned = "executor",
                                           !.connects = g.connects]
                 ELSE \* the exception leaves database(); the object is lost
                      /\ call' = [c EXCEPT !.raised = "DriverError",
                                           !.connects = g.connects]
                      /\ UNCHANGED <<db, connection, debug, log, rowcount,
                                     lastrowid, own_calls>>
       ELSE /\ db' = class
            /\ InitFields
            /\ call' = [c EXCEPT !.returned = "executor"]
            /\ own_calls' = 0
            /\ UNCHANGED factory_calls
    /\ UNCHANGED <<last_insert, debug_calls>>

\* db.debug = b
SetDebug(b) ==
    /\ db # "none"
    /\ debug # b
    /\ debug' = b
    /\ UNCHANGED <<db, connection, log, rowcount, lastrowid, factory_calls, own_calls,
                   last_insert, call, ncalls, debug_calls, body, argv>>
    /\ UNCHANGED uvars

\* any attribute of the connection used through the executor:
\* db.commit(), db.close(), ...
GetAttr ==
    /\ db # "none"
    /\ Step
    /\ \E factory_ok, call_ok \in BOOLEAN :
         LET g == getattr_(connection, factory_ok) IN
         /\ connection' = g.connection
         /\ factory_calls' = factory_calls + g.connects
         /\ own_calls' = own_calls + g.connects
         /\ call' = [NoCall EXCEPT !.op = "getattr",
                        !.raised = IF g.raised = "none" /\ call_ok
                                   THEN "none" ELSE "DriverError",
                        !.connects = g.connects]
    /\ UNCHANGED <<db, debug, log, rowcount, lastrowid, last_insert,
                   debug_calls>>

----------------------------------------------------------------------------
(* Database.execute and Database.execute_many *)

Self == [paramstyle |-> paramstyle(db), debug |-> debug, log |-> log,
         rowcount |-> rowcount, lastrowid |-> lastrowid]

\* the facts of a call that is about to run
ThisCall(op, command, connects) ==
    [NoCall EXCEPT !.op = op, !.command = command, !.args = argv,
                   !.style = paramstyle(db), !.debug = debug,
                   !.connects = connects]

\* cursor = self.cursor() raises: the factory fails on first use, or the
\* connection's cursor() fails; _execute is not reached
CursorFails(op, command) ==
    \E factory_ok \in (IF connection = "None" THEN BOOLEAN ELSE {TRUE}) :
      LET g == getattr_(connection, factory_ok) IN
      /\ connection' = g.connection
      /\ factory_calls' = factory_calls + g.connects
      /\ own_calls' = own_calls + g.connects
      /\ call' = [ThisCall(op, command, g.connects) EXCEPT !.raised = "DriverError"]
      /\ UNCHANGED <<log, rowcount, lastrowid, last_insert>>

\* cursor = self.cursor() and then self._execute(cursor, method, command, *args)
Executes(op, method, command) ==
    LET g == getattr_(connection, TRUE)
        raises == translate(paramstyle(db), command, argv).raised # "none"
    IN
    \E drv \in (IF raises THEN {[ok |-> FALSE, message |-> "", cursor |-> NoCursor]}
                ELSE DriverOutcomes(method, command)) :
      LET r == execute_(Self, method, command, argv, drv) IN
      /\ connection' = g.connection
      /\ factory_calls' = factory_calls + g.connects
      /\ own_calls' = own_calls + g.connects
      /\ log' = r.self.log
      /\ rowcount' = r.self.rowcount
      /\ lastrowid' = r.self.lastrowid
      /\ call' = [ThisCall(op, command, g.connects) EXCEPT
                     !.raised = r.raised, !.exc = r.exc, !.out = r.out,
                     !.sent = r.sent, !.cursor = r.cursor,
                     !.returned = r.returned, !.value = r.value]
      /\ last_insert' =
           IF r.raised = "none" /\ ~r.cursor.description
           THEN IF method = "execute" /\ Head(command) = "insert"
                THEN r.cursor.lastrowid ELSE None
           ELSE last_insert

Run(op, method, command) ==
    /\ db # "none"
    /\ Step
    /\ debug_calls' = debug_calls + (IF debug THEN 1 ELSE 0)
    /\ \/ CursorFails(op, command)
       \/ Executes(op, method, command)
    /\ UNCHANGED <<db, debug>>

\* db.execute(command, *argv), also db(command, *argv)
Execute(verb) == Run("execute", "execute", <<verb>> \o body)

\* db.execute_many(command, argv)
ExecuteMany == Run("execute_many", "executemany", <<"insert">> \o body)

\* db.use(name): another executor, of class Database, made of the same
\* factory and arguments; nothing of this one is touched
Use ==
    /\ db # "none"
    /\ Step
    /\ call' = [NoCall EXCEPT !.op = "use", !.engine = "Database",
                              !.returned = "executor"]
    /\ UNCHANGED <<db, connection, debug, log, rowcount, lastrowid,
                   factory_calls, own_calls, last_insert, debug_calls>>

----------------------------------------------------------------------------
(* The executor under a workload of statements sharing one body and one
   argument list *)

\* <<body, argv>> : the shapes of call the executor is used with
Workloads ==
    { <<<<>>, <<>>>>,                                   \* no parameters
      <<<<"%s">>, <<Scalar(1)>>>>,                      \* one scalar
      <<<<"%s">>, <<>>>>,                               \* a parameter missing
      <<<<"%s", "%s">>, <<SeqV(<<1, 1>>)>>>>,           \* one sequence
      <<<<"%s">>, <<SeqV(<<1>>), SeqV(<<1>>)>>>>,       \* two sequences
      <<<<"%(a)s">>, <<MapV(<<"a">>)>>>>,               \* one mapping
      <<<<>>, <<MapV(<<>>)>>>>,                         \* one empty mapping
      <<<<"%(a)s">>, <<MapV(<<"a">>), MapV(<<"a">>)>>>> \* two mappings
    }

Init ==
    /\ db = "none"
    /\ connection = "None"
    /\ debug = FALSE
    /\ log = <<>>
    /\ rowcount = None
    /\ lastrowid = None
    /\ factory_calls = 0
    /\ own_calls = 0
    /\ last_insert = None
    /\ call = NoCall
    /\ ncalls = 0
    /\ debug_calls = 0
    /\ \E w \in Workloads : body = w[1] /\ argv = w[2]
    /\ UInit

Next ==
    \/ \E class \in Classes : Construct(class)
    \/ \E engine \in EngineNames : OpenDatabase(engine)
    \/ \E b \in BOOLEAN : SetDebug(b)
    \/ GetAttr
    \/ \E verb \in Verbs : Execute(verb)
    \/ ExecuteMany
    \/ Use

Spec == Init /\ [][Next]_vars

----------------------------------------------------------------------------
(* translate() alone, over all bounded statements and argument lists *)

Tokens  == {"text", "%s", "%(a)s", "%(b)s"}

TInit ==
    /\ db \in {"Sqlite3Database", "MySQLDatabase"}
    /\ connection = "None"
    /\ debug = FALSE
    /\ log = <<>>
    /\ rowcount = None
    /\ lastrowid = None
    /\ factory_calls = 0
    /\ own_calls = 0
    /\ last_insert = None
    /\ call = NoCall
    /\ ncalls = 0
    /\ debug_calls = 0
    /\ body \in SeqsUpTo(Tokens, MaxTLen)
    /\ argv \in SeqsUpTo(Values, MaxTArgs)
    /\ UInit

\* db.translate(body, *argv)
Translate ==
    /\ ncalls = 0
    /\ ncalls' = 1
    /\ call' = [NoCall EXCEPT !.op = "translate", !.command = body,
                              !.args = argv, !.style = paramstyle(db),
                              !.out = translate(paramstyle(db), body, argv)]
    /\ UNCHANGED <<db, connection, debug, log, rowcount, lastrowid,
                   factory_calls, own_calls, last_insert, debug_calls, body, argv>>
    /\ UNCHANGED uvars

TNext == Translate

TSpec == TInit /\ [][TNext]_vars

----------------------------------------------------------------------------
(* Properties *)

Runs == {"execute", "execute_many"}

RECURSIVE Count(_, _)
Count(tok, text) ==
    IF text = <<>> THEN 0
    ELSE (IF Head(text) = tok THEN 1 ELSE 0) + Count(tok, Tail(text))

\* C1: a failure of the driver during execute()/execute_many(), a failure
\* to connect or to get a cursor included, reaches the caller as a
\* DatabaseException and never as the driver's own exception.
C1_DriverFailureIsWrapped ==
    call.op \in Runs => call.raised # "DriverError"

\* C2: the log holds exactly one line for each execute()/execute_many()
\* call made while debug was on, whether the call returned or raised.
C2_OneLinePerDebugCall ==
    Len(log) = debug_calls

\* C3: on the qmark backend, with n scalar arguments or with one sequence of
\* n elements, a translation that succeeds leaves no %s in the statement and
\* has as many ? markers as parameter values handed to the driver.
C3_MarkersEqualValues ==
    ( /\ call.op = "translate"
      /\ call.style = "qmark"
      /\ call.out.raised = "none"
      /\ \/ \A i \in 1..Len(call.args) : call.args[i].t = "scalar"
         \/ Len(call.args) = 1 /\ call.args[1].t = "seq" )
    => /\ Count("%s", call.out.command) = 0
       /\ call.out.form = "tuple"
       /\ Count("?", call.out.command) = Len(call.out.params)

\* C4: when the only argument is a mapping, empty or not, a translation that
\* succeeds hands that mapping itself to the driver, on both backends, and on
\* the qmark backend no %(key)s is left in the statement.
C4_MappingPassedThrough ==
    ( /\ call.op = "translate"
      /\ Len(call.args) = 1
      /\ call.args[1].t = "map"
      /\ call.out.raised = "none" )
    => /\ call.out.form = "mapping"
       /\ call.out.params = <<call.args[1]>>
       /\ call.style = "qmark" =>
            \A tok \in Named : Count(tok, call.out.command) = 0

\* C5: for every statement and argument list, translation succeeds on the
\* qmark backend exactly when it succeeds on the pyformat backend, and then
\* both hand the same parameters to the driver.
C5_TranslationTotal ==
    call.op = "translate" =>
      LET q == translate("qmark", call.command, call.args)
          p == translate("pyformat", call.command, call.args)
      IN /\ (q.raised = "none") <=> (p.raised = "none")
         /\ (q.raised = "none" /\ p.raised = "none") =>
               (q.form = p.form /\ q.params = p.params)

\* the parameter sets of a sequence, as the driver is to bind them
ParamSets(sequence) ==
    [i \in 1..Len(sequence) |->
        [form |-> IF sequence[i].t = "map" THEN "mapping" ELSE "tuple",
         params |-> <<sequence[i]>>]]

\* C6: unless the driver fails, execute_many(statement, sequence) returns
\* after the driver has executed the statement once for each parameter set
\* of the sequence, in order, and rowcount is the cursor's.
C6_OncePerParameterSet ==
    (call.op = "execute_many" /\ call.raised \notin {"DriverError", "DatabaseException"})
    => /\ call.raised = "none"
       /\ DriverParamSets(call.sent) = ParamSets(call.args)
       /\ rowcount = call.cursor.rowcount

\* C7: a successful execute() returns a Result exactly when the cursor has a
\* description, otherwise it returns the cursor's lastrowid and stores it in
\* the executor's lastrowid; so lastrowid is the identifier of the most
\* recent insert as long as only inserts, row-producing statements and
\* failed calls follow it.
C7_ResultOrLastRowId ==
    /\ (call.op = "execute" /\ call.raised = "none") =>
         /\ (call.returned = "Result") <=> call.cursor.description
         /\ ~call.cursor.description =>
              /\ call.returned = "lastrowid"
              /\ call.value = call.cursor.lastrowid
              /\ lastrowid = call.cursor.lastrowid
    /\ last_insert # None => lastrowid = last_insert

\* C7 witness: a row-producing statement has run after an insert
C7_Witness ==
    /\ call.op = "execute"
    /\ call.returned = "Result"
    /\ last_insert = Some(MaxId)
    /\ lastrowid = Some(MaxId)

\* C8: the DatabaseException carries the statement as the caller wrote it,
\* the caller's arguments and the driver's message.
C8_ExceptionCarriesOriginal ==
    call.raised = "DatabaseException" =>
      /\ call.exc.statement = call.command
      /\ call.exc.parameters = call.args
      /\ call.exc.message \in Messages

----------------------------------------------------------------------------
(* users.py: the groups of a user.                                         *)

MaxDepth == 10      \* depth < 10 in get_memberships
MaxGroup == 2       \* group ids of the enumerated hierarchies
MaxEdges == 2       \* rows of the subgroups table, enumerated hierarchies

GroupIds == 1..MaxGroup
UserIds  == {1, 2}

\* Names are strings of characters, so that strip(), startswith() and
\* slicing are computed.
Space == " "
a_    == <<"a", "_">>

RECURSIVE lstrip(_)
lstrip(s) == IF s # <<>> /\ Head(s) = Space THEN lstrip(Tail(s)) ELSE s

RECURSIVE rstrip(_)
rstrip(s) ==
    IF s # <<>> /\ s[Len(s)] = Space
    THEN rstrip(SubSeq(s, 1, Len(s) - 1))
    ELSE s

strip(s) == rstrip(lstrip(s))

startswith(s, prefix) ==
    /\ Len(s) >= Len(prefix)
    /\ SubSeq(s, 1, Len(prefix)) = prefix

\* if depth < 10:
depth_deeper(depth) == depth <= MaxDepth
depth_ok(depth) == depth < MaxDepth

\* grp not in result
unseen_always(grp, result) == TRUE
unseen(grp, result) == grp \notin Range(result)

\* get_memberships(group, memberships, depth): the list it returns, and
\* the deepest level of recursion that it reached.  memberships is the list
\* of (grp, sgrp) rows; for_ is the for loop, from row i on.
RECURSIVE get_memberships(_, _, _)
RECURSIVE for_(_, _, _, _, _)
for_(group, memberships, depth, i, acc) ==
    IF i > Len(memberships) THEN acc
    ELSE LET grp  == memberships[i][1]
             sgrp == memberships[i][2]
         IN  IF group = sgrp /\ unseen(grp, acc.result)
             THEN LET sub == get_memberships(grp, memberships, depth + 1)
                  IN  for_(group, memberships, depth, i + 1,
                           [result  |-> acc.result \o sub.result,
                            deepest |-> IF sub.deepest > acc.deepest
                                        THEN sub.deepest ELSE acc.deepest])
             ELSE for_(group, memberships, depth, i + 1, acc)

get_memberships(group, memberships, depth) ==
    IF depth_ok(depth)
    THEN for_(group, memberships, depth, 1,
              [result |-> <<group>>, deepest |-> depth])
    ELSE [result |-> <<group>>, deepest |-> depth]

\* SELECT group_id FROM members WHERE user_id=%s
RECURSIVE my_groups_any(_, _)
my_groups_any(members, user_id) ==
    IF members = <<>> THEN <<>>
    ELSE <<Head(members)[2]>> \o my_groups_any(Tail(members), user_id)

RECURSIVE my_groups_(_, _)
my_groups_(members, user_id) ==
    IF members = <<>> THEN <<>>
    ELSE (IF Head(members)[1] = user_id THEN <<Head(members)[2]>> ELSE <<>>)
         \o my_groups_(Tail(members), user_id)

\* for group in my_groups: memberships += get_memberships(group, subgroups)
RECURSIVE memberships_(_, _)
memberships_(my_groups, subgroups) ==
    IF my_groups = <<>> THEN [result |-> <<>>, deepest |-> 0]
    ELSE LET one  == get_memberships(Head(my_groups), subgroups, 0)
             rest == memberships_(Tail(my_groups), subgroups)
         IN  [result  |-> one.result \o rest.result,
              deepest |-> IF one.deepest > rest.deepest
                          THEN one.deepest ELSE rest.deepest]

\* if groupid in groups
named_all(groupid, groups) == TRUE
named(groupid, groups) == groupid \in Range(groups)

\* for rec in db('SELECT id, name FROM groups'): ... named_groups += [name]
RECURSIVE named_groups_as_found(_, _)
named_groups_as_found(rows, groups) ==
    IF groups = <<>> THEN <<>>
    ELSE LET here == {i \in 1..Len(rows) : rows[i][1] = Head(groups)}
             rest == SelectSeq(Tail(groups), LAMBDA g : g # Head(groups))
         IN  (IF here = {} THEN <<>>
              ELSE <<strip(rows[CHOOSE i \in here : TRUE][2])>>)
             \o named_groups_as_found(rows, rest)

RECURSIVE named_groups_(_, _)
named_groups_(rows, groups) ==
    IF rows = <<>> THEN <<>>
    ELSE LET groupid == Head(rows)[1]
             name    == strip(Head(rows)[2])
         IN  (IF named(groupid, groups) THEN <<name>> ELSE <<>>)
             \o named_groups_(Tail(rows), groups)

\* get_groups(db, user), with the values of its local variables
get_groups(t, user_id) ==
    LET my_groups   == my_groups_(t.members, user_id)
        memberships == memberships_(my_groups, t.subgroups)
        groups      == my_groups \o memberships.result
    IN  [my_groups    |-> my_groups,
         memberships  |-> memberships.result,
         groups       |-> groups,
         deepest      |-> memberships.deepest,
         named_groups |-> named_groups_(t.groups, groups)]

\* User.get_groups(): store is whether the user record came from a store
User_get_groups_kept(t, user) ==
    IF earlier.op = "User.get_groups" /\ earlier.user = user.id
                                      /\ earlier.store = user.store
    THEN earlier.returned
    ELSE IF user.store THEN get_groups(t, user.id).named_groups ELSE <<>>

User_get_groups(t, user) ==
    IF user.store THEN get_groups(t, user.id).named_groups ELSE <<>>

\* User.groups
groups_all(t, user) == User_get_groups(t, user)
groups_(t, user) ==
    SelectSeq(User_get_groups(t, user), LAMBDA g : ~startswith(g, a_))

\* User.apps
RECURSIVE apps_of(_)
apps_of(names) ==
    IF names = <<>> THEN <<>>
    ELSE (IF startswith(Head(names), a_)
          THEN <<SubSeq(Head(names), 3, Len(Head(names)))>> ELSE <<>>)
         \o apps_of(Tail(names))

apps_(t, user) == apps_of(User_get_groups(t, user))

\* User.is_member(group)
is_member(t, user, group) == group \in Range(groups_(t, user))

----------------------------------------------------------------------------
(* The users layer over fixed tables.                                      *)

\* rows of SELECT group_id, subgroup_id FROM subgroups ORDER BY subgroup_id:
\* ordered by their second column, rows with the same subgroup in any order
Ordered(rows) ==
    \A i \in 1..Len(rows) - 1 : rows[i][2] <= rows[i + 1][2]

EdgeLists ==
    {rows \in SeqsUpTo(GroupIds \X GroupIds, MaxEdges) : Ordered(rows)}

\* larger hierarchies: a diamond, a chain, a chain listed twice, and a
\* cycle with a branch, its rows for subgroup 2 in either order
Hierarchies ==
    { << <<2, 1>>, <<3, 1>>, <<4, 2>>, <<4, 3>> >>,
      << <<2, 1>>, <<3, 2>>, <<4, 3>> >>,
      << <<2, 1>>, <<2, 1>>, <<3, 2>>, <<3, 2>> >>,
      << <<2, 1>>, <<1, 2>>, <<3, 2>>, <<4, 3>> >>,
      << <<2, 1>>, <<3, 2>>, <<1, 2>>, <<4, 3>> >> }

\* rows (user_id, group_id) of the members table
MemberTables ==
    { <<>>,
      << <<1, 1>> >>,
      << <<1, 1>>, <<2, 2>> >>,
      << <<1, 1>>, <<1, 2>> >>,
      << <<2, 3>>, <<1, 2>>, <<1, 1>> >> }

\* rows (id, name) of the groups table, as stored
StoredName(id) ==
    CASE id = 1 -> <<"u">>
      [] id = 2 -> <<"a", "_", "p">>
      [] id = 3 -> <<Space, "m", Space>>
      [] id = 4 -> <<Space, "a", "_", "q">>
      [] OTHER  -> <<"a">>

TableIds == GroupIds \cup {1, 2, 3, 4}
NTable   == Cardinality(TableIds)
GroupTables ==
    { [i \in 1..NTable |-> <<i, StoredName(i)>>],
      [i \in 1..NTable |-> <<NTable + 1 - i, StoredName(NTable + 1 - i)>>] }

\* users: two from a store, one that is a bare record
Users ==
    { [id |-> 1, store |-> TRUE],
      [id |-> 2, store |-> TRUE],
      [id |-> 1, store |-> FALSE] }

\* names asked for by is_member
AskedNames == {<<"u">>, <<"a", "_", "p">>}

GInit ==
    /\ db = "none"
    /\ connection = "none"
    /\ debug = FALSE
    /\ log = <<>>
    /\ rowcount = None
    /\ lastrowid = None
    /\ factory_calls = 0
    /\ own_calls = 0
    /\ last_insert = None
    /\ call = NoCall
    /\ ncalls = 0
    /\ debug_calls = 0
    /\ body = <<>>
    /\ argv = <<>>
    /\ tables \in [members   : MemberTables,
                   subgroups : EdgeLists \cup Hierarchies,
                   groups    : GroupTables]
    /\ ucall = NoUCall
    /\ earlier = NoUCall
    /\ catalog = <<>>
    /\ rcursor = NoResult
    /\ rcall = NoRCall
    /\ dcall = NoDCall

\* the calls
UCall(c) ==
    /\ ucall' = c
    /\ UNCHANGED <<db, connection, debug, log, rowcount, lastrowid,
                   factory_calls, own_calls, last_insert, call, ncalls, debug_calls,
                   body, argv, tables, earlier, catalog, rcursor, rcall, dcall>>

GetGroups(user) ==
    LET r == get_groups(tables, user.id)
    IN  UCall([NoUCall EXCEPT !.op = "get_groups", !.user = user.id,
                              !.store = user.store,
                              !.returned = r.named_groups,
                              !.my_groups = r.my_groups,
                              !.memberships = r.memberships,
                              !.groups = r.groups,
                              !.deepest = r.deepest])

UserGetGroups(user) ==
    UCall([NoUCall EXCEPT !.op = "User.get_groups", !.user = user.id,
                          !.store = user.store,
                          !.returned = User_get_groups(tables, user)])

UserGroups(user) ==
    UCall([NoUCall EXCEPT !.op = "groups", !.user = user.id,
                          !.store = user.store,
                          !.returned = groups_(tables, user)])

UserApps(user) ==
    UCall([NoUCall EXCEPT !.op = "apps", !.user = user.id,
                          !.store = user.store,
                          !.returned = apps_(tables, user)])

IsMember(user, group) ==
    UCall([NoUCall EXCEPT !.op = "is_member", !.user = user.id,
                          !.store = user.store, !.arg = group,
                          !.truth = is_member(tables, user, group)])

GNext ==
    \/ \E user \in Users : user.store /\ GetGroups(user)
    \/ \E user \in Users : UserGetGroups(user)
    \/ \E user \in Users : UserGroups(user)
    \/ \E user \in Users : UserApps(user)
    \/ \E user \in Users, group \in AskedNames : IsMember(user, group)

GSpec == GInit /\ [][GNext]_vars

----------------------------------------------------------------------------
(* The users layer while rows are inserted into and deleted from the       *)
(* tables between the calls.                                               *)

MemberRows == {<<1, 1>>, <<2, 2>>}
EdgeRows   == {<<2, 1>>, <<3, 2>>}
GroupRows  == {<<2, StoredName(2)>>}

CInit ==
    /\ db = "none"
    /\ connection = "none"
    /\ debug = FALSE
    /\ log = <<>>
    /\ rowcount = None
    /\ lastrowid = None
    /\ factory_calls = 0
    /\ own_calls = 0
    /\ last_insert = None
    /\ call = NoCall
    /\ ncalls = 0
    /\ debug_calls = 0
    /\ body = <<>>
    /\ argv = <<>>
    /\ tables = [members   |-> <<>>,
                 subgroups |-> <<>>,
                 groups    |-> [i \in 1..NTable |-> <<i, StoredName(i)>>]]
    /\ ucall = NoUCall
    /\ earlier = NoUCall
    /\ catalog = <<>>
    /\ rcursor = NoResult
    /\ rcall = NoRCall
    /\ dcall = NoDCall

\* a row is appended to the rows of its table; a row of subgroups is put
\* where ORDER BY subgroup_id puts it
Appended(rows, row) == {rows \o <<row>>}

Placed(rows, row) ==
    {placed \in {SubSeq(rows, 1, k) \o <<row>> \o SubSeq(rows, k + 1, Len(rows))
                    : k \in 0..Len(rows)} : Ordered(placed)}

Without(rows, row) ==
    LET Other(r) == r # row IN SelectSeq(rows, Other)

\* a change of the tables; the call made before it is kept for comparison
Change(t) ==
    /\ tables' = t
    /\ earlier' = IF ucall.op = "none" THEN earlier ELSE ucall
    /\ ucall' = NoUCall
    /\ UNCHANGED <<db, connection, debug, log, rowcount, lastrowid,
                   factory_calls, own_calls, last_insert, call, ncalls, debug_calls,
                   body, argv, catalog, rcursor, rcall, dcall>>

InsertMember(row) ==
    /\ row \notin Range(tables.members)
    /\ \E rows \in Appended(tables.members, row) :
           Change([tables EXCEPT !.members = rows])

DeleteMember(row) ==
    /\ row \in Range(tables.members)
    /\ Change([tables EXCEPT !.members = Without(@, row)])

InsertSubgroup(row) ==
    /\ row \notin Range(tables.subgroups)
    /\ \E rows \in Placed(tables.subgroups, row) :
           Change([tables EXCEPT !.subgroups = rows])

DeleteSubgroup(row) ==
    /\ row \in Range(tables.subgroups)
    /\ Change([tables EXCEPT !.subgroups = Without(@, row)])

InsertGroup(row) ==
    /\ row \notin Range(tables.groups)
    /\ \E rows \in Appended(tables.groups, row) :
           Change([tables EXCEPT !.groups = rows])

DeleteGroup(row) ==
    /\ row \in Range(tables.groups)
    /\ Change([tables EXCEPT !.groups = Without(@, row)])

CNext ==
    \/ \E row \in MemberRows : InsertMember(row)
    \/ \E row \in MemberRows : DeleteMember(row)
    \/ \E row \in EdgeRows : InsertSubgroup(row)
    \/ \E row \in EdgeRows : DeleteSubgroup(row)
    \/ \E row \in GroupRows : InsertGroup(row)
    \/ \E row \in GroupRows : DeleteGroup(row)
    \/ \E user \in Users : user.store /\ GetGroups(user)
    \/ \E user \in Users : UserGetGroups(user)
    \/ \E user \in Users : UserGroups(user)
    \/ \E user \in Users : UserApps(user)
    \/ \E user \in Users, group \in AskedNames : IsMember(user, group)

CSpec == CInit /\ [][CNext]_vars

----------------------------------------------------------------------------
(* Properties of the users layer.                                          *)

\* the groups that have one of the groups of S as a subgroup, added n times
RECURSIVE Ancestors(_, _, _)
Ancestors(S, edges, n) ==
    IF n = 0 THEN S
    ELSE Ancestors(S \cup {e[1] : e \in {d \in edges : d[2] \in S}},
                   edges, n - 1)

Edges == Range(tables.subgroups)

\* C11: after get_groups, every group that is reached from a direct
\* membership of the user over at most 10 edges from subgroup to group is
\* among the groups that were resolved.
C11_ClosureWithinTenEdges ==
    ucall.op = "get_groups" =>
        Ancestors(Range(ucall.my_groups), Edges, MaxDepth)
            \subseteq Range(ucall.groups)

\* C12: within one get_groups call no group is expanded twice.  Every call
\* of get_memberships puts its group first in the list it returns, so the
\* list of memberships names every expansion once.
C12_ExpandedAtMostOnce ==
    ucall.op = "get_groups" =>
        \A i, j \in 1..Len(ucall.memberships) :
            i # j => ucall.memberships[i] # ucall.memberships[j]

Cyclic(edges) ==
    \E d, e \in edges : d[1] = e[2] /\ d[2] = e[1]

\* C13: get_groups returns for every user and every list of edges, cyclic
\* ones included (GetGroups has no guard and its value is computed), and
\* get_memberships is never more than 10 levels deep.
C13_ReturnsWithinDepth ==
    ucall.op = "get_groups" =>
        /\ ucall.deepest <= MaxDepth
        /\ Len(ucall.groups) >= 2 * Len(ucall.my_groups)

C13_Witness ==
    /\ ucall.op = "get_groups"
    /\ Cyclic(Edges)
    /\ ucall.deepest = MaxDepth

\* the direct memberships of a user, and every group above them
Direct(user_id) ==
    {row[2] : row \in {r \in Range(tables.members) : r[1] = user_id}}

Closure(user_id) ==
    Ancestors(Direct(user_id), Edges, Len(tables.subgroups))

\* C14: every name that get_groups returns is the name of a group that is a
\* direct membership of the user or above one; a user without memberships
\* gets the empty sequence.
C14_OnlyNamesOfTheClosure ==
    ucall.op = "get_groups" =>
        /\ \A k \in 1..Len(ucall.returned) :
               \E row \in Range(tables.groups) :
                   /\ row[1] \in Closure(ucall.user)
                   /\ strip(row[2]) = ucall.returned[k]
        /\ Direct(ucall.user) = {} => ucall.returned = <<>>

C14_Witness ==
    /\ ucall.op = "get_groups"
    /\ Closure(ucall.user) # Direct(ucall.user)
    /\ Len(ucall.returned) = Cardinality(Closure(ucall.user))
    /\ Len(ucall.returned) < Len(tables.groups)

\* C15 as claimed: get_groups returns the name of each group of the closure
\* once, in the order in which the traversal found the groups.
C15_DiscoveryOrder ==
    ucall.op = "get_groups" =>
        ucall.returned = named_groups_as_found(tables.groups, ucall.groups)

InClosure(row) == row[1] \in Range(ucall.groups)

\* C15 as amended: get_groups returns, for each row of the groups table whose
\* group is in the closure, the stripped name of that row, once, in the
\* order of the rows of the table.
C15_TableOrder ==
    ucall.op = "get_groups" =>
        LET rows == SelectSeq(tables.groups, InClosure)
        IN  /\ ucall.returned = [i \in 1..Len(rows) |-> strip(rows[i][2])]
            /\ Len(ucall.returned)
                   = Cardinality({row[1] : row \in Range(rows)})

C15_Witness ==
    /\ ucall.op = "get_groups"
    /\ Len(ucall.groups) > Cardinality(Range(ucall.groups))
    /\ Len(ucall.returned) > 1
    /\ ucall.returned # named_groups_as_found(tables.groups, ucall.groups)

\* the rows without the repetitions
RECURSIVE Dedup(_)
Dedup(rows) ==
    IF rows = <<>> THEN <<>>
    ELSE LET last == rows[Len(rows)]
             init == SubSeq(rows, 1, Len(rows) - 1)
         IN  IF last \in Range(init) THEN Dedup(init)
             ELSE Dedup(init) \o <<last>>

\* C17: listing rows of the subgroups table more than once does not change
\* what is resolved: the list of groups, and so the set of groups, is that
\* of the rows without the repetitions.
C17_SameUnderRepetition ==
    ucall.op = "get_groups" =>
        ucall.groups
            = get_groups([tables EXCEPT !.subgroups = Dedup(@)],
                         ucall.user).groups

C17_Witness ==
    /\ ucall.op = "get_groups"
    /\ \E i, j \in 1..Len(tables.subgroups) :
           /\ i < j
           /\ tables.subgroups[i] = tables.subgroups[j]
           /\ tables.subgroups[i][1] # tables.subgroups[i][2]
           /\ tables.subgroups[i][2] \in Direct(ucall.user)
    /\ Closure(ucall.user) # Direct(ucall.user)

IsApp(g) == Len(g) >= 2 /\ g[1] = "a" /\ g[2] = "_"
IsPlain(g) == ~IsApp(g)

Resolved == User_get_groups(tables, [id |-> ucall.user, store |-> ucall.store])

\* C20: User.groups is the resolved names that do not start with a_,
\* User.apps is the resolved names that start with a_, without the a_, both
\* in the order of the resolved names; is_member(g) is true exactly when g
\* is in User.groups.
C20_GroupsAndApps ==
    LET plain == SelectSeq(Resolved, IsPlain)
        grant == SelectSeq(Resolved, IsApp)
    IN  /\ ucall.op = "groups" => ucall.returned = plain
        /\ ucall.op = "apps" =>
               ucall.returned =
                   [i \in 1..Len(grant) |->
                       [j \in 1..Len(grant[i]) - 2 |-> grant[i][j + 2]]]
        /\ ucall.op = "is_member" =>
               ucall.truth = (ucall.arg \in Range(plain))
        /\ Len(plain) + Len(grant) = Len(Resolved)

C20_Witness ==
    /\ ucall.op = "is_member"
    /\ IsApp(ucall.arg)
    /\ ucall.arg \in Range(Resolved)
    /\ \E g \in Range(Resolved) : IsPlain(g)
    /\ ~ucall.truth

\* what the tables say now: the names, in the order of the rows of the
\* groups table, of the groups of the closure of the user
NamesNow(user_id, store) ==
    LET Mine(row) == row[1] \in Closure(user_id)
        rows == SelectSeq(tables.groups, Mine)
    IN  IF store THEN [i \in 1..Len(rows) |-> strip(rows[i][2])] ELSE <<>>

Chop(names) ==
    [i \in 1..Len(names) |->
        [j \in 1..Len(names[i]) - 2 |-> names[i][j + 2]]]

\* C16: whatever rows were inserted and deleted and whatever calls were
\* made before, the result of a call is the one that the rows of the tables
\* at the time of the call give.
C16_FromTheTablesAtTheCall ==
    LET now == NamesNow(ucall.user, ucall.store)
    IN  /\ ucall.op \in {"get_groups", "User.get_groups"} =>
               ucall.returned = now
        /\ ucall.op = "groups" => ucall.returned = SelectSeq(now, IsPlain)
        /\ ucall.op = "apps" => ucall.returned = Chop(SelectSeq(now, IsApp))
        /\ ucall.op = "is_member" =>
               ucall.truth = (ucall.arg \in Range(SelectSeq(now, IsPlain)))

C16_Witness ==
    /\ ucall.op = "User.get_groups"
    /\ earlier.op = ucall.op
    /\ earlier.user = ucall.user
    /\ earlier.store = ucall.store
    /\ earlier.returned # <<>>
    /\ ucall.returned # <<>>
    /\ earlier.returned # ucall.returned

----------------------------------------------------------------------------
(* database.py: Result, and get_tables().                                  *)

ARRAY_SIZE == 1000  \* rows per fetchmany
MaxRows    == 3     \* rows of a statement

ArraySizes == {1, 2, ARRAY_SIZE}
RowsOf(n)  == [i \in 1..n |-> i]

\* cursor.fetchmany(size): the next rows, at most size of them, and none
\* once the rows of the statement have all been fetched
fetchmany(c, size) ==
    LET k == IF Len(c.rows) < size THEN Len(c.rows) ELSE size
    IN  [results |-> SubSeq(c.rows, 1, k),
         cursor  |-> [c EXCEPT !.rows = SubSeq(c.rows, k + 1, Len(c.rows))]]

\* Result.__iter__, run to its end: what it yields and the cursor after it
iter_again(c) ==
    [yielded |-> c.all, cursor |-> [c EXCEPT !.rows = <<>>, !.exhausted = TRUE]]

RECURSIVE iter_(_)
iter_(c) ==
    LET f == fetchmany(c, c.array_size)
    IN  IF f.results = <<>>
        THEN [yielded |-> <<>>, cursor |-> [f.cursor EXCEPT !.exhausted = TRUE]]
        ELSE LET more == iter_(f.cursor)
             IN  [yielded |-> f.results \o more.yielded, cursor |-> more.cursor]

\* Result.first(): the iterator is left after its first row, with the rows
\* of its first fetch gone from the cursor; None when there is no row
first(c) ==
    LET f == fetchmany(c, c.array_size)
    IN  IF f.results = <<>>
        THEN [yielded |-> <<>>, isnone |-> TRUE,
              cursor |-> [f.cursor EXCEPT !.exhausted = TRUE]]
        ELSE [yielded |-> <<f.results[1]>>, isnone |-> FALSE,
              cursor |-> f.cursor]

\* the tables of the database: the names that statements created, and the
\* names that the backend created for itself
TableNames == {"t1", "t2"}
Internal   == "sqlite_sequence"

\* create table: sqlite keeps the counters of AUTOINCREMENT columns in a
\* table of its own, which it creates with the first such table
created(class, names, name, autoincrement) ==
    names \o <<name>> \o
        (IF class = "Sqlite3Database" /\ autoincrement
                                      /\ Internal \notin Range(names)
         THEN <<Internal>> ELSE <<>>)

\* select name from sqlite_master where type="table"  /  show tables
get_tables(class, names) == names

DInit ==
    /\ db \in Classes
    /\ connection = "conn"
    /\ debug = FALSE
    /\ log = <<>>
    /\ rowcount = None
    /\ lastrowid = None
    /\ factory_calls = 1
    /\ own_calls = 1
    /\ last_insert = None
    /\ call = NoCall
    /\ ncalls = 0
    /\ debug_calls = 0
    /\ body = <<>>
    /\ argv = <<>>
    /\ tables = NoTables
    /\ ucall = NoUCall
    /\ earlier = NoUCall
    /\ catalog = <<>>
    /\ rcursor = NoResult
    /\ rcall = NoRCall
    /\ dcall = NoDCall

RCall(c, r) ==
    /\ rcursor' = c
    /\ rcall' = r
    /\ UNCHANGED <<db, connection, debug, log, rowcount, lastrowid,
                   factory_calls, own_calls, last_insert, call, ncalls, debug_calls,
                   body, argv, tables, ucall, earlier, catalog, dcall>>

\* a statement with n rows is executed and a Result made of its cursor
Select(n, array_size) ==
    RCall([live |-> TRUE, all |-> RowsOf(n), rows |-> RowsOf(n),
           array_size |-> array_size, exhausted |-> FALSE],
          [NoRCall EXCEPT !.op = "select"])

\* list(result)
Iterate ==
    /\ rcursor.live
    /\ LET i == iter_(rcursor)
       IN  RCall(i.cursor, [NoRCall EXCEPT !.op = "iter", !.rows = i.yielded,
                                           !.after_all = rcursor.exhausted])

\* repr(result): repr(list(self))
Repr ==
    /\ rcursor.live
    /\ LET i == iter_(rcursor)
       IN  RCall(i.cursor, [NoRCall EXCEPT !.op = "repr", !.rows = i.yielded,
                                           !.after_all = rcursor.exhausted])

\* str(result): the labels, and a line for each row of self
Str ==
    /\ rcursor.live
    /\ LET i == iter_(rcursor)
       IN  RCall(i.cursor, [NoRCall EXCEPT !.op = "str", !.rows = i.yielded,
                                           !.after_all = rcursor.exhausted])

\* result.first()
First ==
    /\ rcursor.live
    /\ LET f == first(rcursor)
       IN  RCall(f.cursor, [NoRCall EXCEPT !.op = "first", !.rows = f.yielded,
                                           !.isnone = f.isnone,
                                           !.after_all = rcursor.exhausted])

TCall(names, r) ==
    /\ catalog' = names
    /\ rcall' = r
    /\ UNCHANGED <<db, connection, debug, log, rowcount, lastrowid,
                   factory_calls, own_calls, last_insert, call, ncalls, debug_calls,
                   body, argv, tables, ucall, earlier, rcursor, dcall>>

CreateTable(name, autoincrement) ==
    /\ name \notin Range(catalog)
    /\ TCall(created(db, catalog, name, autoincrement),
             [NoRCall EXCEPT !.op = "create"])

DropTable(name) ==
    /\ name \in Range(catalog)
    /\ LET Other(n) == n # name
       IN  TCall(SelectSeq(catalog, Other), [NoRCall EXCEPT !.op = "drop"])

GetTables ==
    TCall(catalog, [NoRCall EXCEPT !.op = "get_tables",
                                   !.names = get_tables(db, catalog)])

DNext ==
    \/ \E n \in 0..MaxRows, array_size \in ArraySizes : Select(n, array_size)
    \/ Iterate
    \/ Repr
    \/ Str
    \/ First
    \/ \E name \in TableNames, autoincrement \in BOOLEAN :
           CreateTable(name, autoincrement)
    \/ \E name \in TableNames : DropTable(name)
    \/ GetTables

DSpec == DInit /\ [][DNext]_vars

\* C18: a use of a Result that has been iterated to its end (by iteration,
\* first(), repr() or str()) gets no row; rows come again only from a new
\* execution.
C18_NoRowsAfterTheEnd ==
    /\ rcall.after_all => rcall.rows = <<>>
    /\ rcursor.exhausted => rcursor.rows = <<>>

C18_Witness ==
    /\ rcall.after_all
    /\ rcall.op = "first"
    /\ rcall.isnone
    /\ rcursor.all # <<>>

\* C19: get_tables() returns exactly the names of the tables that were
\* created and not dropped since, on every backend.
C19_ExactlyTheTablesCreated ==
    rcall.op = "get_tables" =>
        Range(rcall.names) = Range(catalog) \cap TableNames

----------------------------------------------------------------------------
(* Further properties of the users layer.                                  *)

\* the rows in every order
Orders(rows) ==
    LET n == Len(rows)
        perms == {f \in [1..n -> 1..n] : \A i, j \in 1..n : f[i] = f[j] => i = j}
    IN  {[i \in 1..n |-> rows[f[i]]] : f \in perms}

\* C23: the set of groups that get_groups resolves is the same for every
\* order of the rows of the subgroups table, rows with the same subgroup
\* included.
C23_SameInEveryOrder ==
    ucall.op = "get_groups" =>
        \A rows \in Orders(tables.subgroups) :
            Range(get_groups([tables EXCEPT !.subgroups = rows],
                             ucall.user).groups)
                = Range(ucall.groups)

----------------------------------------------------------------------------
(* users.py: can() and authorize().                                        *)

Usernames == {"admin", "user", "guest"}
Actions   == {"read", "edit", "delete", "list"}

\* things that provide allows(user, action): the object of the tests, a
\* container with the same method, which is false when it is empty, and a
\* User
Things ==
    {[kind |-> "MyObject", owner |-> "", truth |-> TRUE]}
        \cup {[kind |-> "Container", owner |-> "", truth |-> b] : b \in BOOLEAN}
        \cup {[kind |-> "User", owner |-> n, truth |-> TRUE] : n \in Usernames}

\* thing.allows(user, action)
allows(thing, username, action) ==
    IF thing.kind = "User"
    THEN action # "delete" \/ thing.owner # "admin"
    ELSE action = "read" \/ username = "admin"

\* bool(thing and thing.allows(self, action))
can(username, action, thing) ==
    IF thing.truth THEN allows(thing, username, action) ELSE FALSE

\* if not thing.allows(self, action): raise UnauthorizedException
authorize(username, action, thing) ==
    IF ~allows(thing, username, action)
    THEN "UnauthorizedException" ELSE "none"

AInit ==
    /\ db = "none"
    /\ connection = "none"
    /\ debug = FALSE
    /\ log = <<>>
    /\ rowcount = None
    /\ lastrowid = None
    /\ factory_calls = 0
    /\ own_calls = 0
    /\ last_insert = None
    /\ call = NoCall
    /\ ncalls = 0
    /\ debug_calls = 0
    /\ body = <<>>
    /\ argv = <<>>
    /\ UInit

Can(username, action, thing) ==
    UCall([NoUCall EXCEPT !.op = "can", !.username = username,
                          !.action = action, !.thing = thing,
                          !.truth = can(username, action, thing)])

Authorize(username, action, thing) ==
    UCall([NoUCall EXCEPT !.op = "authorize", !.username = username,
                          !.action = action, !.thing = thing,
                          !.raised = authorize(username, action, thing)])

ANext ==
    \/ \E username \in Usernames, action \in Actions, thing \in Things :
           Can(username, action, thing)
    \/ \E username \in Usernames, action \in Actions, thing \in Things :
           Authorize(username, action, thing)

ASpec == AInit /\ [][ANext]_vars

\* C21: authorize raises UnauthorizedException exactly when allows is false,
\* and can is True exactly when authorize would not raise, for every thing
\* that provides allows; neither changes the tables.
C21_CanIffAuthorizeReturns ==
    /\ ucall.op = "authorize" =>
           (ucall.raised = "UnauthorizedException"
                <=> ~allows(ucall.thing, ucall.username, ucall.action))
    /\ ucall.op = "can" =>
           (ucall.truth
                <=> authorize(ucall.username, ucall.action, ucall.thing) = "none")
    /\ tables = NoTables

----------------------------------------------------------------------------
(* database.py: decimal values on their way into a column and back.        *)

MaxDigits == 1      \* digits of the coefficient, enumerated values
MaxExp    == 2      \* size of the exponent, enumerated values

\* A Decimal is its coefficient, a string of digits, and its exponent; a
\* text is a string of characters.
DigitChars == <<"0", "1", "2", "3", "4", "5", "6", "7", "8", "9">>

\* str(value) of a Decimal
str_(d) ==
    LET Char(i)   == DigitChars[i + 1]
        Chars(ds) == [i \in 1..Len(ds) |-> Char(ds[i])]
        Zeros(k)  == [i \in 1..k |-> "0"]
        Number(k) == IF k < 10 THEN <<Char(k)>>
                     ELSE <<Char(k \div 10), Char(k % 10)>>
        n == Len(d.digits)
        leftdigits == d.exp + n
        dotplace == IF d.exp <= 0 /\ leftdigits > -6 THEN leftdigits ELSE 1
        intpart ==
            IF dotplace <= 0 THEN <<"0">>
            ELSE IF dotplace >= n THEN Chars(d.digits) \o Zeros(dotplace - n)
            ELSE Chars(SubSeq(d.digits, 1, dotplace))
        fracpart ==
            IF dotplace <= 0 THEN <<".">> \o Zeros(-dotplace) \o Chars(d.digits)
            ELSE IF dotplace >= n THEN <<>>
            ELSE <<".">> \o Chars(SubSeq(d.digits, dotplace + 1, n))
        e == leftdigits - dotplace
        exppart ==
            IF e = 0 THEN <<>>
            ELSE IF e < 0 THEN <<"E", "-">> \o Number(-e)
            ELSE <<"E", "+">> \o Number(e)
    IN  intpart \o fracpart \o exppart

\* the digits without zeros in front, one digit at least
RECURSIVE Lead(_)
Lead(ds) == IF Len(ds) > 1 /\ Head(ds) = 0 THEN Lead(Tail(ds)) ELSE ds

\* Decimal(text)
Decimal_(text) ==
    LET Val(c) == CHOOSE i \in 0..9 : DigitChars[i + 1] = c
        Natural(cs) == IF Len(cs) = 1 THEN Val(cs[1])
                       ELSE 10 * Val(cs[1]) + Val(cs[2])
        At(c) == {i \in 1..Len(text) : text[i] = c}
        e == IF At("E") = {} THEN Len(text) + 1 ELSE CHOOSE i \in At("E") : TRUE
        dot == IF At(".") = {} THEN e ELSE CHOOSE i \in At(".") : TRUE
        int == SubSeq(text, 1, dot - 1)
        frac == SubSeq(text, dot + 1, e - 1)
        power == IF e > Len(text) THEN 0
                 ELSE IF text[e + 1] = "-"
                      THEN 0 - Natural(SubSeq(text, e + 2, Len(text)))
                      ELSE Natural(SubSeq(text, e + 2, Len(text)))
        all == int \o frac
    IN  [digits |-> Lead([i \in 1..Len(all) |-> Val(all[i])]),
         exp    |-> power - Len(frac)]

\* adapt_decimal(value), convert_decimal(bytetext)
adapt_decimal(value) == str_(value)
convert_decimal(bytetext) == Decimal_(bytetext)

\* the number without zeros at its end: two Decimals are equal when these
\* are the same
RECURSIVE Normal(_)
Normal(d) ==
    IF Lead(d.digits) = <<0>> THEN NoDecimal
    ELSE IF d.digits[Len(d.digits)] = 0
         THEN Normal([digits |-> SubSeq(d.digits, 1, Len(d.digits) - 1),
                      exp |-> d.exp + 1])
         ELSE [digits |-> Lead(d.digits), exp |-> d.exp]

\* the digits plus one in the last place
RECURSIVE Up(_)
Up(ds) ==
    IF ds = <<>> THEN <<1>>
    ELSE IF ds[Len(ds)] < 9
         THEN [ds EXCEPT ![Len(ds)] = @ + 1]
         ELSE Up(SubSeq(ds, 1, Len(ds) - 1)) \o <<0>>

\* A column declared decimal(...) has numeric affinity in sqlite: a text
\* that reads as a number is kept as a 64 bit integer if it is one, and
\* else as a floating point number, which comes back with 15 digits.
numeric_(text) ==
    LET v == Normal(Decimal_(text))
        n == Len(v.digits)
        cut == SubSeq(v.digits, 1, 15)
    IN  IF n <= 15 \/ (v.exp >= 0 /\ n + v.exp <= 18) THEN str_(v)
        ELSE str_(Normal([digits |-> IF v.digits[16] >= 5 THEN Up(cut) ELSE cut,
                          exp    |-> v.exp + n - 15]))

\* what the column holds after the insert, and what the select gives
cell_(class, value) ==
    IF class = "Sqlite3Database"
    THEN numeric_(adapt_decimal(value))
    ELSE str_(value)

read_(class, cell) ==
    IF class = "Sqlite3Database"
    THEN convert_decimal(cell)
    ELSE Decimal_(cell)

\* the values: all short ones, and values of the column of the tests,
\* decimal(10,2), and of wider columns
Coefficients ==
    {ds \in SeqsUpTo(0..9, MaxDigits) : ds # <<>> /\ Lead(ds) = ds}

Decimals ==
    [digits : Coefficients, exp : (0 - MaxExp)..MaxExp]
        \cup { [digits |-> <<1, 1, 2>>, exp |-> -2],
               [digits |-> <<1, 1, 0>>, exp |-> -2],
               [digits |-> <<1, 2, 3, 4, 5, 6, 7, 8, 9, 0>>, exp |-> -2],
               [digits |-> <<1, 1, 2>>, exp |-> -6],
               [digits |-> <<1, 2>>, exp |-> -9],
               [digits |-> <<1, 2, 3, 4, 5, 6, 7, 8, 9, 0, 1, 2, 3, 4, 5>>,
                exp |-> -15],
               [digits |-> <<1, 2, 3, 4, 5, 6, 7, 8, 9, 0, 1, 2, 3, 4, 5, 6>>,
                exp |-> -16],
               [digits |-> <<9, 9, 9, 9, 9, 9, 9, 9, 9, 9, 9, 9, 9, 9, 9, 9>>,
                exp |-> -16],
               [digits |-> <<1, 2, 3, 4, 5, 6, 7, 8, 9, 0, 1, 2, 3, 4, 5, 6, 7>>,
                exp |-> 0] }

NInit ==
    /\ db \in Classes
    /\ connection = "conn"
    /\ debug = FALSE
    /\ log = <<>>
    /\ rowcount = None
    /\ lastrowid = None
    /\ factory_calls = 1
    /\ own_calls = 1
    /\ last_insert = None
    /\ call = NoCall
    /\ ncalls = 0
    /\ debug_calls = 0
    /\ body = <<>>
    /\ argv = <<>>
    /\ UInit

DCall(c) ==
    /\ dcall' = c
    /\ UNCHANGED <<db, connection, debug, log, rowcount, lastrowid,
                   factory_calls, own_calls, last_insert, call, ncalls, debug_calls,
                   body, argv, tables, ucall, earlier, catalog, rcursor,
                   rcall>>

\* db('insert into t values (%s)', value)
InsertDecimal(value) ==
    DCall([NoDCall EXCEPT !.op = "insert", !.written = value,
                          !.cell = cell_(db, value)])

\* db('select v from t')
SelectDecimal ==
    /\ dcall.op # "none"
    /\ DCall([dcall EXCEPT !.op = "select", !.read = read_(db, dcall.cell)])

NNext ==
    \/ \E value \in Decimals : InsertDecimal(value)
    \/ SelectDecimal

NSpec == NInit /\ [][NNext]_vars

\* C22: a decimal value written and read back is equal to the one written,
\* on both backends, and convert_decimal(adapt_decimal(d)) equals d.
C22_DecimalComesBackEqual ==
    dcall.op = "select" =>
        /\ Normal(dcall.read) = Normal(dcall.written)
        /\ Normal(convert_decimal(adapt_decimal(dcall.written)))
               = Normal(dcall.written)

----------------------------------------------------------------------------
(* Further properties of the executor.                                     *)

\* C24 as claimed: over any sequence of operations on one executor the
\* connection factory is invoked at most once.
C24_FactoryAtMostOnce ==
    own_calls <= 1

\* C24 as amended: an executor invokes the factory only while it has no
\* connection (so again only after every earlier invocation raised), a
\* connection once made is never replaced, and use() invokes no factory and
\* leaves connection, log, rowcount and lastrowid as they are.
C24_OneConnection ==
    [][ /\ own_calls' > own_calls =>
               /\ connection = "None" \/ db = "none"
               /\ own_calls' = own_calls + 1
        /\ (db # "none" /\ connection # "None") => connection' = connection
        /\ (call'.op = "use" /\ ncalls' # ncalls) =>
               /\ factory_calls' = factory_calls
               /\ own_calls' = own_calls
               /\ connection' = connection
               /\ log' = log
               /\ rowcount' = rowcount
               /\ lastrowid' = lastrowid ]_vars

C24_Witness ==
    /\ own_calls > 1
    /\ connection # "None"
    /\ call.op \in Runs
    /\ call.raised = "none"

\* C25: a call to execute or execute_many that raises leaves rowcount and
\* lastrowid as they were; a call that returns a Result sets rowcount to
\* the cursor's and leaves lastrowid as it was.
C25_FailureKeepsResultState ==
    [][ (call'.op \in Runs /\ ncalls' # ncalls) =>
            /\ call'.raised # "none" =>
                   /\ rowcount' = rowcount
                   /\ lastrowid' = lastrowid
            /\ (call'.raised = "none" /\ call'.returned = "Result") =>
                   /\ rowcount' = call'.cursor.rowcount
                   /\ lastrowid' = lastrowid ]_vars

C25_Witness ==
    /\ call.op \in Runs
    /\ call.raised = "DatabaseException"
    /\ rowcount # None
    /\ lastrowid \notin {None, Some(0)}

====
